---- MODULE Spec2Model ----
(***************************************************************************)
(* Data Sweeper (src/main.py): a Streamlit script that loads uploaded CSV  *)
(* / XLSX files, cleans them, projects columns, converts them and packs    *)
(* the converted files into a ZIP archive.  Every user interaction re-runs *)
(* the whole script; a button is True only in the run its click caused.    *)
(*                                                                         *)
(* Numbers are exact rationals n/d (pandas uses IEEE doubles; rounding in  *)
(* the last place is not modelled).  Strings that the code takes apart     *)
(* (file names) are sequences of one-character strings.                    *)
(***************************************************************************)
EXTENDS Integers, Sequences, FiniteSets, TLC

VARIABLES
    uploaded_files,   \* the batch held by st.file_uploader
    session_state,    \* default_cleaning, auto_remove_duplicates, auto_fill_nulls
    widgets,          \* per-file keyed widget values: clean_, cols_, conv_
    clicked,          \* the button that is True in the last run (or none)
    shown,            \* per file: what the last run rendered for it
    converted_files,  \* the dict of line 145 at the end of the last run
    zip,              \* the archive built by the last run (entries), if any
    produced,         \* history: every generated filename converted in the session
    hist,             \* history: per file, the cleaning buttons clicked so far
    nact,             \* number of user interactions so far
    tbl, prev, ops, count, filled,   \* cleaner / selector applied to one table
    selected,                        \* the column list given to the selector
    fnA, fnB                         \* two files of one batch and their generated names

svars == <<uploaded_files, session_state, widgets, clicked, shown,
           converted_files, zip, produced, hist, nact>>
tvars == <<tbl, prev, ops, count, filled, selected>>
nvars == <<fnA, fnB>>
vars == <<svars, tvars, nvars>>

----------------------------------------------------------------------------
(* Bounds *)
MaxRows == 3        \* rows of a table given to the cleaner
MaxOps == 2         \* cleaning operations applied in a row to one table
SelCols == 3        \* columns of a table given to the column selector
SelMaxRows == 2     \* rows of a table given to the column selector
MaxFiles == 2       \* files in an uploaded batch
MaxActions == 2     \* user interactions after the upload
MaxBaseLen == 2     \* characters in an uploaded file's base name
MaxIdx == 2         \* largest position (from 0) of a file in a batch

----------------------------------------------------------------------------
(* Cells: a number (exact rational n/d), a text, or the missing marker *)
Cell(k, n, d, s) == [k |-> k, n |-> n, d |-> d, s |-> s]
NULL == Cell("null", 0, 1, "")
Num(n) == Cell("num", n, 1, "")
Txt(s) == Cell("txt", 0, 1, s)
IsNull(c) == c.k = "null"

RECURSIVE Gcd(_, _)
Gcd(a, b) == IF b = 0 THEN a ELSE Gcd(b, a % b)

Frac(n, d) == LET g == Gcd(n, d) IN
              IF g = 0 THEN Cell("num", 0, 1, "") ELSE Cell("num", n \div g, d \div g, "")

\* Series.sum(skipna=True) over the cells of one column
RECURSIVE SumCells(_)
SumCells(cs) ==
    IF cs = <<>> THEN Num(0)
    ELSE LET c == Head(cs)
             r == SumCells(Tail(cs))
         IN IF IsNull(c) THEN r ELSE Frac(c.n * r.d + r.n * c.d, c.d * r.d)

CountNonNull(cs) == Cardinality({i \in 1..Len(cs) : ~IsNull(cs[i])})

\* Series.mean(): the mean of the non-missing cells, NaN when there is none
Mean(cs) ==
    LET cnt == CountNonNull(cs)
        s == SumCells(cs)
    IN IF cnt = 0 THEN NULL ELSE Frac(s.n, s.d * cnt)

----------------------------------------------------------------------------
(* Tables (DataFrame): named, typed columns and rows aligned by position *)
Table(columns, dtypes, rows) == [columns |-> columns, dtypes |-> dtypes, rows |-> rows]

Column(df, j) == [i \in 1..Len(df.rows) |-> df.rows[i][j]]

IsNumeric(dtype) == dtype \in {"int64", "float64"}

\* df.select_dtypes(include=["number"]).columns
NumericCols(df) == {j \in 1..Len(df.columns) : IsNumeric(df.dtypes[j])}

RowHasNull(r) == \E j \in 1..Len(r) : IsNull(r[j])

----------------------------------------------------------------------------
(* Cleaner: clean_data and the Remove Null Rows button *)
Range(f) == {f[i] : i \in DOMAIN f}

\* a variant that compares a row with the previously kept row only
RECURSIVE DropDupAdjacent(_, _)
DropDupAdjacent(rows, kept) ==
    IF rows = <<>> THEN kept
    ELSE IF kept # <<>> /\ kept[Len(kept)] = Head(rows)
         THEN DropDupAdjacent(Tail(rows), kept)
         ELSE DropDupAdjacent(Tail(rows), Append(kept, Head(rows)))

\* DataFrame.drop_duplicates(): keep="first", missing cells compare equal
RECURSIVE DropDup(_, _)
DropDup(rows, kept) ==
    IF rows = <<>> THEN kept
    ELSE IF Head(rows) \in Range(kept)
         THEN DropDup(Tail(rows), kept)
         ELSE DropDup(Tail(rows), Append(kept, Head(rows)))

drop_duplicates(df) == Table(df.columns, df.dtypes, DropDup(df.rows, <<>>))

\* a variant that divides the sum by the number of rows, missing ones included
FillValueAllRows(cs) ==
    LET s == SumCells(cs)
    IN IF Len(cs) = 0 THEN NULL ELSE Frac(s.n, s.d * Len(cs))

\* the value fillna() gets for one column: df[numeric_cols].mean()
FillValue(cs) == Mean(cs)

\* df[numeric_cols].fillna(df[numeric_cols].mean()); a NaN mean fills nothing
fillna_mean(df) ==
    Table(df.columns, df.dtypes,
          [i \in 1..Len(df.rows) |->
             [j \in 1..Len(df.columns) |->
                 IF j \in NumericCols(df) /\ IsNull(df.rows[i][j])
                 THEN FillValue(Column(df, j)) ELSE df.rows[i][j]]])

\* lines 108-112: the table after the duplicates branch
DupStep(df, auto_remove_duplicates) ==
    IF auto_remove_duplicates THEN drop_duplicates(df) ELSE df

\* lines 114-120: the table after the fill branch, and its message
FillStep(df, auto_fill_nulls) ==
    IF auto_fill_nulls /\ NumericCols(df) # {} THEN fillna_mean(df) ELSE df

FillMessage(df, auto_fill_nulls) ==
    IF ~auto_fill_nulls THEN "none"
    ELSE IF NumericCols(df) # {} THEN "filled" ELSE "no numeric columns"

\* clean_data: the table and the messages it shows (removed = -1: no message)
clean_data(df, auto_remove_duplicates, auto_fill_nulls) ==
    [df |-> FillStep(DupStep(df, auto_remove_duplicates), auto_fill_nulls),
     removed |-> IF auto_remove_duplicates
                 THEN Len(df.rows) - Len(drop_duplicates(df).rows) ELSE -1,
     fill |-> FillMessage(DupStep(df, auto_remove_duplicates), auto_fill_nulls)]

\* a variant that drops only the rows whose cells are all missing
RowAllNull(r) == \A j \in 1..Len(r) : IsNull(r[j])
KeepAnyValue(r) == ~RowAllNull(r) \/ Len(r) = 0

\* the rows DataFrame.dropna() keeps
KeepRow(r) == ~RowHasNull(r)

dropna(df) == Table(df.columns, df.dtypes, SelectSeq(df.rows, KeepRow))

----------------------------------------------------------------------------
(* Column Selector: df[selected_columns] *)
ColIdx(df, name) == CHOOSE j \in 1..Len(df.columns) : df.columns[j] = name

\* a variant that keeps the chosen columns in the table's own order
RECURSIVE OriginalOrder(_, _)
OriginalOrder(columns, sel) ==
    IF columns = <<>> THEN <<>>
    ELSE IF Head(columns) \in Range(sel)
         THEN <<Head(columns)>> \o OriginalOrder(Tail(columns), sel)
         ELSE OriginalOrder(Tail(columns), sel)

\* the order of the projected columns: the order of the list given
ProjectionOrder(columns, sel) == sel

Project(df, o) ==
    Table(o,
          [k \in 1..Len(o) |-> df.dtypes[ColIdx(df, o[k])]],
          [i \in 1..Len(df.rows) |->
              [k \in 1..Len(o) |-> df.rows[i][ColIdx(df, o[k])]]])

\* if selected_columns: df = df[selected_columns]
select_columns(df, selected_columns) ==
    IF selected_columns = <<>> THEN df
    ELSE Project(df, ProjectionOrder(df.columns, selected_columns))

----------------------------------------------------------------------------
(* Converter: convert_file *)
Digit(d) == <<"0", "1", "2", "3", "4", "5", "6", "7", "8", "9">>[d + 1]

RECURSIVE IntToStr(_)
IntToStr(n) == IF n < 10 THEN <<Digit(n)>> ELSE IntToStr(n \div 10) \o <<Digit(n % 10)>>

\* how a number prints: "3" in an int64 column, "3.0" in a float64 column;
\* a non-integer n/d is written n/d in place of its decimal expansion
NumRepr(c, dtype) ==
    IF dtype = "int64" THEN IntToStr(c.n)
    ELSE IF c.d = 1 THEN IntToStr(c.n) \o <<".", "0">>
    ELSE IntToStr(c.n) \o <<"/">> \o IntToStr(c.d)

\* to_csv: a missing cell is the empty field
CsvField(c, dtype) ==
    IF IsNull(c) THEN <<>>
    ELSE IF c.k = "num" THEN NumRepr(c, dtype) ELSE <<c.s>>

\* to_excel: a missing cell is an empty cell, other cells carry their type
XlsxCell(c, dtype) ==
    IF IsNull(c) THEN <<>>
    ELSE IF c.k = "num" THEN <<"n">> \o NumRepr(c, "float64") ELSE <<"s", c.s>>

\* the buffer: a header line, then one line per row (index=False)
convert_file(df, conversion_type) ==
    LET header == [j \in 1..Len(df.columns) |-> <<df.columns[j]>>]
        body == [i \in 1..Len(df.rows) |->
                    [j \in 1..Len(df.columns) |->
                        IF conversion_type = "CSV"
                        THEN CsvField(df.rows[i][j], df.dtypes[j])
                        ELSE XlsxCell(df.rows[i][j], df.dtypes[j])]]
    IN [data |-> <<header>> \o body,
        mime |-> IF conversion_type = "CSV" THEN "text/csv"
                 ELSE "application/vnd.openxmlformats-officedocument.spreadsheetml.sheet"]

----------------------------------------------------------------------------
(* File names *)
Lower(c) ==
    IF c = "C" THEN "c" ELSE IF c = "S" THEN "s" ELSE IF c = "V" THEN "v"
    ELSE IF c = "X" THEN "x" ELSE IF c = "L" THEN "l" ELSE c

LowerStr(p) == [i \in 1..Len(p) |-> Lower(p[i])]

\* os.path.splitext on a name without separators: split at the last dot
\* unless only dots precede it
SplitAt(p) ==
    LET dots == {i \in 1..Len(p) : p[i] = "."}
        last == IF dots = {} THEN 0 ELSE CHOOSE i \in dots : \A k \in dots : k <= i
    IN IF last > 0 /\ \E k \in 1..(last - 1) : p[k] # "." THEN last ELSE Len(p) + 1

splitext(p) == <<SubSeq(p, 1, SplitAt(p) - 1), SubSeq(p, SplitAt(p), Len(p))>>

file_ext(name) == LowerStr(splitext(name)[2])

ExtOf(conversion_type) ==
    IF conversion_type = "CSV" THEN <<"c", "s", "v">> ELSE <<"x", "l", "s", "x">>

\* a variant without the position of the file
NameWithoutIndex(name, idx, conversion_type) ==
    splitext(name)[1] \o <<".">> \o ExtOf(conversion_type)

\* f"{os.path.splitext(file.name)[0]}_{idx}.{'csv' if ... else 'xlsx'}"
new_filename(name, idx, conversion_type) ==
    splitext(name)[1] \o <<"_">> \o IntToStr(idx) \o <<".">> \o ExtOf(conversion_type)

----------------------------------------------------------------------------
(* Tables as the Loader delivers them *)
AllNull(cs) == \A i \in 1..Len(cs) : IsNull(cs[i])

\* pandas' type inference for one parsed column
InferDtype(cs) ==
    IF Len(cs) = 0 THEN "object"
    ELSE IF AllNull(cs) THEN "float64"
    ELSE IF \E i \in 1..Len(cs) : cs[i].k = "txt" THEN "object"
    ELSE IF \E i \in 1..Len(cs) : IsNull(cs[i]) THEN "float64"
    ELSE "int64"

Loaded(columns, rows) ==
    Table(columns,
          [j \in 1..Len(columns) |-> InferDtype([i \in 1..Len(rows) |-> rows[i][j]])],
          rows)

ColNames == <<"a", "b", "c", "d", "e">>

SeqsUpTo(S, n) == UNION {[1..k -> S] : k \in 0..n}

\* every table of Len(kinds) columns and at most maxrows rows whose number
\* columns draw from nums and whose text columns draw from txts
GenTables(kinds, maxrows, nums, txts) ==
    LET dom(j) == {NULL} \cup (IF kinds[j] = "number" THEN {Num(n) : n \in nums}
                                               ELSE {Txt(t) : t \in txts})
        rowset == {r \in [1..Len(kinds) -> {NULL} \cup {Num(n) : n \in nums}
                                                  \cup {Txt(t) : t \in txts}] :
                      \A j \in 1..Len(kinds) : r[j] \in dom(j)}
    IN {Loaded(SubSeq(ColNames, 1, Len(kinds)), rows) : rows \in SeqsUpTo(rowset, maxrows)}

CleanTables ==
    UNION {GenTables(<<k1, k2>>, MaxRows, {1, 3}, {"x"}) :
              k1 \in {"number", "object"}, k2 \in {"number", "object"}}

SelTables ==
    GenTables([j \in 1..SelCols |-> IF j % 2 = 1 THEN "object" ELSE "number"],
              SelMaxRows, {1}, {"x"})

\* the lists a multiselect can return: distinct options in the order chosen
OrderedSubsets(columns) ==
    {s \in SeqsUpTo(Range(columns), Len(columns)) :
        \A i, k \in 1..Len(s) : i # k => s[i] # s[k]}

----------------------------------------------------------------------------
(* Initial values of the three groups of variables *)
NoFile == [name |-> <<>>, idx |-> 0, conversion_type |-> "CSV", out |-> <<>>]
EmptyTable == Table(<<>>, <<>>, <<>>)

SInit0 ==
    /\ uploaded_files = <<>>
    /\ session_state = [default_cleaning |-> TRUE,
                        auto_remove_duplicates |-> FALSE,
                        auto_fill_nulls |-> FALSE]
    /\ widgets = <<>>
    /\ clicked = [kind |-> "none", i |-> 0]
    /\ shown = <<>>
    /\ converted_files = [k \in {} |-> <<>>]
    /\ zip = [built |-> FALSE, entries |-> [k \in {} |-> <<>>]]
    /\ produced = {}
    /\ hist = <<>>
    /\ nact = 0

TInit0 ==
    /\ tbl = EmptyTable
    /\ prev = EmptyTable
    /\ ops = <<>>
    /\ count = -1
    /\ filled = "none"
    /\ selected = <<>>

NInit0 ==
    /\ fnA = NoFile
    /\ fnB = NoFile

----------------------------------------------------------------------------
(* The cleaner applied to one table: clean_data and dropna, in any order *)
OpName(dup, fill) ==
    IF dup /\ fill THEN "dupfill" ELSE IF dup THEN "dup" ELSE IF fill THEN "fill" ELSE "noop"

InitClean ==
    /\ SInit0 /\ NInit0
    /\ tbl \in CleanTables
    /\ prev = tbl
    /\ ops = <<>>
    /\ count = -1
    /\ filled = "none"
    /\ selected = <<>>

CleanData(dup, fill) ==
    /\ Len(ops) < MaxOps
    /\ LET r == clean_data(tbl, dup, fill)
       IN /\ tbl' = r.df
          /\ count' = r.removed
          /\ filled' = r.fill
    /\ prev' = tbl
    /\ ops' = Append(ops, OpName(dup, fill))
    /\ UNCHANGED <<selected, svars, nvars>>

RemoveNullRows ==
    /\ Len(ops) < MaxOps
    /\ tbl' = dropna(tbl)
    /\ count' = Len(tbl.rows) - Len(dropna(tbl).rows)
    /\ filled' = "none"
    /\ prev' = tbl
    /\ ops' = Append(ops, "dropna")
    /\ UNCHANGED <<selected, svars, nvars>>

NextClean ==
    \/ \E dup \in BOOLEAN, fill \in BOOLEAN : CleanData(dup, fill)
    \/ RemoveNullRows

SpecClean == InitClean /\ [][NextClean]_vars

----------------------------------------------------------------------------
(* The column selector applied to one table *)
InitSelect ==
    /\ SInit0 /\ NInit0
    /\ tbl \in SelTables
    /\ prev = tbl
    /\ ops = <<>>
    /\ count = -1
    /\ filled = "none"
    /\ selected = <<>>

SelectColumns(sel) ==
    /\ ops = <<>>
    /\ selected' = sel
    /\ tbl' = select_columns(tbl, sel)
    /\ prev' = tbl
    /\ ops' = <<"select">>
    /\ UNCHANGED <<count, filled, svars, nvars>>

\* the lists the multiselect can return for a table of SelCols columns
SelChoices == OrderedSubsets(SubSeq(ColNames, 1, SelCols))

NextSelect == \E sel \in SelChoices : SelectColumns(sel)

SpecSelect == InitSelect /\ [][NextSelect]_vars

----------------------------------------------------------------------------
(* The generated names of two files at different positions of one batch *)
BaseNames == SeqsUpTo({"a", "_", "1"}, MaxBaseLen) \ {<<>>}

UploadNames ==
    {b \o e : b \in BaseNames, e \in {<<".", "c", "s", "v">>, <<".", "x", "l", "s", "x">>}}

FileAt(name, idx, conversion_type) ==
    [name |-> name, idx |-> idx, conversion_type |-> conversion_type, out |-> <<>>]

InitNames ==
    /\ SInit0 /\ TInit0
    /\ \E na, nb \in UploadNames, ia, ib \in 0..MaxIdx, ca, cb \in {"CSV", "Excel"} :
          /\ ia < ib
          /\ fnA = FileAt(na, ia, ca)
          /\ fnB = FileAt(nb, ib, cb)

ConvertBoth ==
    /\ fnA.out = <<>>
    /\ fnA' = [fnA EXCEPT !.out = new_filename(fnA.name, fnA.idx, fnA.conversion_type)]
    /\ fnB' = [fnB EXCEPT !.out = new_filename(fnB.name, fnB.idx, fnB.conversion_type)]
    /\ UNCHANGED <<svars, tvars>>

NextNames == ConvertBoth

SpecNames == InitNames /\ [][NextNames]_vars

----------------------------------------------------------------------------
(* One run of the script over the uploaded batch (lines 145-287) *)
EmptyDict == [k \in {} |-> <<>>]
DictSet(d, k, v) == [x \in DOMAIN d \cup {k} |-> IF x = k THEN v ELSE d[x]]

DotCsv == <<".", "c", "s", "v">>
DotXlsx == <<".", "x", "l", "s", "x">>

\* read_file: dispatch on the extension; a parser exception, or an extension
\* that is neither, gives None (ok = FALSE)
read_file(file, ext) ==
    IF ext = DotCsv THEN [ok |-> file.fmt = "csv", df |-> file.table]
    ELSE IF ext = DotXlsx THEN [ok |-> file.fmt = "xlsx", df |-> file.table]
    ELSE [ok |-> FALSE, df |-> file.table]

\* st.button(..., key=f"{kind}_{idx}_{file.name}"): True in the run its click caused
ButtonTrue(click, kind, i) == click.kind = kind /\ click.i = i

\* a variant that leaves the loop at the first file that fails to load
BreakOnFailure(i, n) == n + 1

\* `continue` (line 166): go on with the next file
AfterReadFailure(i, n) == i + 1

\* a variant that saves nothing for the bulk download
SaveNothing(d, fname, data) == d

\* converted_files[new_filename] = data (line 261)
SaveForBulk(d, fname, data) == DictSet(d, fname, data)

\* the auto-cleaning of lines 169-170
AutoClean(df, ss) ==
    IF ss.default_cleaning
    THEN clean_data(df, ss.auto_remove_duplicates, ss.auto_fill_nulls).df
    ELSE df

\* lines 187-190: whether the three cleaning buttons are rendered
cleaning_enabled(ss, w) == IF ~ss.default_cleaning THEN w.clean ELSE TRUE

\* lines 196-208: a cleaning button acts in the run its click caused
ButtonDup(df, on) == IF on THEN clean_data(df, TRUE, FALSE).df ELSE df
ButtonFill(df, on) == IF on THEN clean_data(df, FALSE, TRUE).df ELSE df
ButtonNull(df, on) == IF on THEN dropna(df) ELSE df

\* the table of file i at the end of its loop body (lines 164-219)
FinalTable(i, file, ss, w, click) ==
    select_columns(
        ButtonNull(
            ButtonFill(
                ButtonDup(AutoClean(read_file(file, file_ext(file.name)).df, ss),
                          cleaning_enabled(ss, w) /\ ButtonTrue(click, "dup", i)),
                cleaning_enabled(ss, w) /\ ButtonTrue(click, "fill", i)),
            cleaning_enabled(ss, w) /\ ButtonTrue(click, "null", i)),
        w.cols)

\* what the run shows for a loaded file, and the conversion (lines 246-261)
Render(i, file, ss, w, click, df) ==
    [status |-> "rendered",
     df |-> df,
     buttons |-> cleaning_enabled(ss, w),
     download |-> ButtonTrue(click, "convert", i),
     fname |-> IF ButtonTrue(click, "convert", i)
               THEN new_filename(file.name, i - 1, w.conv) ELSE <<>>,
     data |-> IF ButtonTrue(click, "convert", i)
              THEN convert_file(df, w.conv).data ELSE <<>>]

\* the body of the loop for file i (position idx = i - 1) once it is loaded
ProcessFile(i, file, ss, w, click) ==
    Render(i, file, ss, w, click, FinalTable(i, file, ss, w, click))

NotReached == [status |-> "none", df |-> EmptyTable, buttons |-> FALSE,
               download |-> FALSE, fname |-> <<>>, data |-> <<>>]
Skipped == [NotReached EXCEPT !.status = "skipped"]

\* the state of the run after the loop body of file i rendered p
Collect(acc, i, p) ==
    [shown |-> [acc.shown EXCEPT ![i] = p],
     converted |-> IF p.download THEN SaveForBulk(acc.converted, p.fname, p.data)
                   ELSE acc.converted]

\* for idx, file in enumerate(uploaded_files): ...
RECURSIVE RunLoop(_, _, _, _, _, _)
RunLoop(i, files, ss, w, click, acc) ==
    IF i > Len(files) THEN acc
    ELSE IF ~read_file(files[i], file_ext(files[i].name)).ok
    THEN RunLoop(AfterReadFailure(i, Len(files)), files, ss, w, click,
                 [acc EXCEPT !.shown[i] = Skipped])
    ELSE RunLoop(i + 1, files, ss, w, click,
                 Collect(acc, i, ProcessFile(i, files[i], ss, w[i], click)))

\* the bulk download section: one entry per item of converted_files
BuildZip(converted) ==
    [built |-> DOMAIN converted # {}, entries |-> converted]

\* a widget that a run does not render loses its value: the per-file
\* "Clean Data" checkbox exists only while default_cleaning is off
KeepWidgets(w, ss) ==
    [i \in DOMAIN w |-> [w[i] EXCEPT !.clean = IF ss.default_cleaning THEN FALSE ELSE @]]

\* a whole run: converted_files = {} (line 145), the loop, the bulk section
Rerun(files, ss, w, click) ==
    /\ \E r \in {RunLoop(1, files, ss, w, click,
                          [shown |-> [i \in 1..Len(files) |-> NotReached],
                           converted |-> EmptyDict])} :
          /\ shown' = r.shown
          /\ converted_files' = r.converted
          /\ zip' = BuildZip(r.converted)
          /\ produced' = produced \cup DOMAIN r.converted
    /\ uploaded_files' = files
    /\ session_state' = ss
    /\ widgets' = KeepWidgets(w, ss)
    /\ clicked' = click

----------------------------------------------------------------------------
(* The session: the upload, then the user's interactions *)
TableA == Loaded(<<"a", "b">>, << <<Txt("x"), Num(1)>>, <<Txt("x"), Num(1)>>,
                                  <<Txt("x"), NULL>>, <<NULL, Num(5)>> >>)
TableB == Loaded(<<"a", "b">>, << <<Num(3), Txt("y")>>, <<NULL, Txt("y")>>,
                                  <<Num(3), Txt("y")>> >>)

FileChoices ==
    { [name |-> <<"a">> \o DotCsv, fmt |-> "csv", table |-> TableA],
      [name |-> <<"a">> \o <<".", "X", "L", "S", "X">>, fmt |-> "xlsx", table |-> TableB],
      [name |-> <<"a">> \o DotCsv, fmt |-> "garbage", table |-> EmptyTable] }

Batches == SeqsUpTo(FileChoices, MaxFiles) \ {<<>>}

NoClick == [kind |-> "none", i |-> 0]

Init ==
    /\ SInit0 /\ TInit0 /\ NInit0

\* the widgets' values before the user touches them
DefaultWidgets(files) ==
    [i \in 1..Len(files) |->
        [clean |-> FALSE,
         cols |-> IF read_file(files[i], file_ext(files[i].name)).ok
                  THEN files[i].table.columns ELSE <<>>,
         conv |-> "CSV"]]

Upload(batch) ==
    /\ uploaded_files = <<>>
    /\ hist' = [i \in 1..Len(batch) |-> <<>>]
    /\ Rerun(batch, session_state, DefaultWidgets(batch), NoClick)
    /\ UNCHANGED <<nact, tvars, nvars>>

Interact ==
    /\ uploaded_files # <<>>
    /\ nact < MaxActions
    /\ nact' = nact + 1
    /\ UNCHANGED <<tvars, nvars>>

NoHist == [i \in 1..Len(uploaded_files) |-> <<>>]

ToggleDefaultCleaning ==
    /\ Interact
    /\ hist' = NoHist
    /\ Rerun(uploaded_files,
             [session_state EXCEPT !.default_cleaning = ~@], widgets, NoClick)

ToggleAutoRemoveDuplicates ==
    /\ Interact
    /\ hist' = NoHist
    /\ Rerun(uploaded_files,
             [session_state EXCEPT !.auto_remove_duplicates = ~@], widgets, NoClick)

ToggleAutoFillNulls ==
    /\ Interact
    /\ hist' = NoHist
    /\ Rerun(uploaded_files,
             [session_state EXCEPT !.auto_fill_nulls = ~@], widgets, NoClick)

Rendered(i) == i \in 1..Len(shown) /\ shown[i].status = "rendered"

ToggleCleanData(i) ==
    /\ Interact
    /\ Rendered(i) /\ ~session_state.default_cleaning
    /\ UNCHANGED hist
    /\ Rerun(uploaded_files, session_state,
             [widgets EXCEPT ![i].clean = ~@], NoClick)

ClickRemoveDuplicates(i) ==
    /\ Interact
    /\ Rendered(i) /\ shown[i].buttons
    /\ hist' = [hist EXCEPT ![i] = Append(@, "dup")]
    /\ Rerun(uploaded_files, session_state, widgets, [kind |-> "dup", i |-> i])

ClickFillMissingValues(i) ==
    /\ Interact
    /\ Rendered(i) /\ shown[i].buttons
    /\ hist' = [hist EXCEPT ![i] = Append(@, "fill")]
    /\ Rerun(uploaded_files, session_state, widgets, [kind |-> "fill", i |-> i])

ClickRemoveNullRows(i) ==
    /\ Interact
    /\ Rendered(i) /\ shown[i].buttons
    /\ hist' = [hist EXCEPT ![i] = Append(@, "null")]
    /\ Rerun(uploaded_files, session_state, widgets, [kind |-> "null", i |-> i])

ChooseColumns(i, sel) ==
    /\ Interact
    /\ Rendered(i) /\ sel # widgets[i].cols
    /\ UNCHANGED hist
    /\ Rerun(uploaded_files, session_state,
             [widgets EXCEPT ![i].cols = sel], NoClick)

ChooseConversion(i) ==
    /\ Interact
    /\ Rendered(i)
    /\ UNCHANGED hist
    /\ Rerun(uploaded_files, session_state,
             [widgets EXCEPT ![i].conv = IF @ = "CSV" THEN "Excel" ELSE "CSV"], NoClick)

ClickConvert(i) ==
    /\ Interact
    /\ Rendered(i)
    /\ UNCHANGED hist
    /\ Rerun(uploaded_files, session_state, widgets, [kind |-> "convert", i |-> i])

ClickDownload(i) ==
    /\ Interact
    /\ Rendered(i) /\ shown[i].download
    /\ UNCHANGED hist
    /\ Rerun(uploaded_files, session_state, widgets, [kind |-> "download", i |-> i])

ClickBulkDownload ==
    /\ Interact
    /\ zip.built
    /\ UNCHANGED hist
    /\ Rerun(uploaded_files, session_state, widgets, [kind |-> "bulk", i |-> 0])

Next ==
    \/ \E batch \in Batches : Upload(batch)
    \/ ToggleDefaultCleaning
    \/ ToggleAutoRemoveDuplicates
    \/ ToggleAutoFillNulls
    \/ \E i \in 1..Len(uploaded_files) : ToggleCleanData(i)
    \/ \E i \in 1..Len(uploaded_files) : ClickRemoveDuplicates(i)
    \/ \E i \in 1..Len(uploaded_files) : ClickFillMissingValues(i)
    \/ \E i \in 1..Len(uploaded_files) : ClickRemoveNullRows(i)
    \/ \E i \in 1..Len(uploaded_files) :
          \E sel \in OrderedSubsets(uploaded_files[i].table.columns) : ChooseColumns(i, sel)
    \/ \E i \in 1..Len(uploaded_files) : ChooseConversion(i)
    \/ \E i \in 1..Len(uploaded_files) : ClickConvert(i)
    \/ \E i \in 1..Len(uploaded_files) : ClickDownload(i)
    \/ ClickBulkDownload

Spec == Init /\ [][Next]_vars

----------------------------------------------------------------------------
(* Properties of the cleaner, the selector and the generated names *)
LastOp == IF ops = <<>> THEN "" ELSE ops[Len(ops)]

\* the rows of a sequence at the positions of I, in increasing position
RowsAt(rows, I) ==
    [k \in 1..Cardinality(I) |->
        rows[CHOOSE i \in I : Cardinality({j \in I : j <= i}) = k]]

FirstOccurrences(rows) ==
    {i \in 1..Len(rows) : \A j \in 1..(i - 1) : rows[j] # rows[i]}

\* C7: removeDuplicates drops exactly the rows equal to an earlier row, keeps
\* the first occurrences in their order, reports the number dropped, and a
\* second application right after changes nothing and reports 0.
C7_RemoveDuplicates ==
    LastOp = "dup" =>
        /\ tbl.rows = RowsAt(prev.rows, FirstOccurrences(prev.rows))
        /\ tbl.columns = prev.columns
        /\ count = Len(prev.rows) - Len(tbl.rows)
        /\ (Len(ops) >= 2 /\ ops[Len(ops) - 1] = "dup") => (tbl = prev /\ count = 0)

C7_Witness ==
    /\ Len(ops) = 2 /\ ops[1] = "dup" /\ ops[2] = "dup"
    /\ Len(tbl.rows) >= 2
    /\ count = 0

\* C8: Remove Null Rows keeps exactly the rows without a missing cell, in
\* their order, and reports the number of rows it removed.
C8_DropNullRows ==
    LastOp = "dropna" =>
        /\ \A i \in 1..Len(tbl.rows) : \A j \in 1..Len(tbl.columns) : ~IsNull(tbl.rows[i][j])
        /\ tbl.rows = RowsAt(prev.rows, {i \in 1..Len(prev.rows) : ~RowHasNull(prev.rows[i])})
        /\ tbl.columns = prev.columns
        /\ count = Len(prev.rows) - Len(tbl.rows)

C8_Witness ==
    /\ LastOp = "dropna"
    /\ count >= 1
    /\ Len(tbl.rows) >= 2
    /\ \E i \in 1..Len(prev.rows) : RowHasNull(prev.rows[i]) /\ ~RowAllNull(prev.rows[i])

\* what fillNumericNulls must do to column j
FilledColumn(j) ==
    /\ \A i \in 1..Len(tbl.rows) : ~IsNull(tbl.rows[i][j])
    /\ \A i \in 1..Len(prev.rows) :
          tbl.rows[i][j] = IF IsNull(prev.rows[i][j]) THEN Mean(Column(prev, j))
                           ELSE prev.rows[i][j]
    /\ Mean(Column(tbl, j)) = Mean(Column(prev, j))

HasMissing(df, j) == \E i \in 1..Len(df.rows) : IsNull(df.rows[i][j])
HasValue(df, j) == \E i \in 1..Len(df.rows) : ~IsNull(df.rows[i][j])

\* C6 as stated: after fillNumericNulls every numeric column that contained
\* missing values contains none, each formerly missing cell holds the mean of
\* the column's non-missing values, other cells are unchanged and the
\* column's mean is the mean before the fill.
C6_Original ==
    LastOp = "fill" =>
        /\ Len(tbl.rows) = Len(prev.rows)
        /\ \A j \in NumericCols(prev) : HasMissing(prev, j) => FilledColumn(j)

\* C6 amended: the same for every numeric column that contained missing
\* values and at least one non-missing value; a numeric column whose cells
\* are all missing, and every non-numeric column, is left as it was.
C6_FillNumericNulls ==
    LastOp = "fill" =>
        /\ Len(tbl.rows) = Len(prev.rows)
        /\ tbl.columns = prev.columns
        /\ \A j \in 1..Len(prev.columns) :
              IF j \in NumericCols(prev) /\ HasValue(prev, j)
              THEN FilledColumn(j)
              ELSE Column(tbl, j) = Column(prev, j)

C6_Witness ==
    /\ LastOp = "fill"
    /\ \E j \in NumericCols(prev) :
          /\ HasMissing(prev, j)
          /\ \E i, k \in 1..Len(prev.rows) :
                ~IsNull(prev.rows[i][j]) /\ ~IsNull(prev.rows[k][j])
                /\ prev.rows[i][j] # prev.rows[k][j]
    /\ \E j \in 1..Len(prev.columns) : j \notin NumericCols(prev) /\ HasMissing(prev, j)

\* C9: the selector gives the chosen columns in the order chosen, an empty
\* choice gives the table unchanged, and the rows stay as they are.
C9_ColumnSelector ==
    LastOp = "select" =>
        IF selected = <<>> THEN tbl = prev
        ELSE /\ tbl.columns = selected
             /\ Len(tbl.rows) = Len(prev.rows)
             /\ \A i \in 1..Len(prev.rows) : \A k \in 1..Len(selected) :
                   \E j \in 1..Len(prev.columns) :
                      /\ prev.columns[j] = selected[k]
                      /\ tbl.rows[i][k] = prev.rows[i][j]
                      /\ tbl.dtypes[k] = prev.dtypes[j]

C9_Witness ==
    /\ LastOp = "select"
    /\ selected = <<"b", "a">>
    /\ Len(prev.columns) >= 3
    /\ tbl.columns = <<"b", "a">>
    /\ Len(tbl.rows) = 2
    /\ tbl.rows[1] # tbl.rows[2]

\* C10: two files at different positions of a batch get different generated
\* names, whatever their uploaded names and target formats.
C10_UniqueFilenames ==
    fnA.out # <<>> => fnA.out # fnB.out

C10_Witness ==
    /\ fnA.out # <<>>
    /\ fnA.name = fnB.name
    /\ fnA.conversion_type = fnB.conversion_type
    /\ fnA.name = <<"_", "1", ".", "c", "s", "v">>

----------------------------------------------------------------------------
(* Properties of a run and of the session *)
LoadsOk(i) == read_file(uploaded_files[i], file_ext(uploaded_files[i].name)).ok

Files == 1..Len(uploaded_files)

\* C1: a file that fails to load is skipped, and every file that loads is
\* rendered with the table, the widgets and the conversion of its own
\* pipeline, whatever happened to the files before it.
C1_FailureDoesNotBlock ==
    \A i \in Files :
        IF LoadsOk(i)
        THEN /\ shown[i] = ProcessFile(i, uploaded_files[i], session_state, widgets[i], clicked)
             /\ shown[i].download =>
                   /\ shown[i].fname \in DOMAIN converted_files
                   /\ converted_files[shown[i].fname] = shown[i].data
        ELSE shown[i] = Skipped

C1_Witness ==
    \E i, j \in Files :
        /\ i < j
        /\ ~LoadsOk(i) /\ LoadsOk(j)
        /\ shown[i].status = "skipped"
        /\ shown[j].status = "rendered"
        /\ shown[j].download
        /\ shown[j].fname \in DOMAIN zip.entries

ConvertedNow == {i \in Files : shown[i].status = "rendered" /\ shown[i].download}

C3_ArchiveAccumulates ==
    zip.built => produced \subseteq DOMAIN zip.entries

ApplyOp(df, kind) ==
    IF kind = "dup" THEN clean_data(df, TRUE, FALSE).df
    ELSE IF kind = "fill" THEN clean_data(df, FALSE, TRUE).df
    ELSE dropna(df)

RECURSIVE ApplyOps(_, _)
ApplyOps(df, kinds) ==
    IF kinds = <<>> THEN df ELSE ApplyOps(ApplyOp(df, Head(kinds)), Tail(kinds))

\* the table of file i after the auto-cleaning, the cleaning operations the
\* user applied to it, and the column selection
CleanedAndProjected(i) ==
    select_columns(ApplyOps(AutoClean(uploaded_files[i].table, session_state), hist[i]),
                   widgets[i].cols)

\* C4: the bytes of a converted file are the serialization of its cleaned
\* and projected table.
C4_ConvertsCleanedTable ==
    \A i \in ConvertedNow :
        shown[i].data = convert_file(CleanedAndProjected(i), widgets[i].conv).data

Distinct(q) == \A a, b \in 1..Len(q) : a # b => q[a] # q[b]

OneRunTables(df) ==
    LET auto == {AutoClean(df, [default_cleaning |-> dc, auto_remove_duplicates |-> d,
                                auto_fill_nulls |-> f]) :
                    dc \in BOOLEAN, d \in BOOLEAN, f \in BOOLEAN}
    IN auto \cup {ApplyOp(t, k) : t \in auto, k \in {"dup", "fill", "null"}}

\* fill, then remove duplicates, then remove null rows is out of reach of a run
FillDupNullOutOfReach ==
    /\ ApplyOps(TableA, <<"fill", "dup", "null">>) \notin OneRunTables(TableA)
    /\ \A i \in Files :
          (shown[i].status = "rendered" /\ uploaded_files[i].table = TableA
             /\ widgets[i].cols \in {<<>>, TableA.columns})
          => /\ shown[i].df \in OneRunTables(TableA)
             /\ shown[i].df # ApplyOps(TableA, <<"fill", "dup", "null">>)

====
